---- MODULE Spec2Model ----
(***************************************************************************)
(* Model of combustion_ecs::builder::SystemBuilder                         *)
(* (src/combustion_ecs/src/builder.rs): the node table, the petgraph       *)
(* Graph<Option<SystemConstructor>, (), Directed, usize>, the two          *)
(* registration operations and build.                                      *)
(*                                                                         *)
(* Conventions.  Node indices are 1-based (petgraph's NodeIndex 0 is node  *)
(* 1 here), so that graph.nodes is a sequence of node weights.  graph.edges *)
(* is the edge vector in insertion order; petgraph's Graph::neighbors       *)
(* walks the outgoing edges of a node newest first.  Dfs::next is the       *)
(* petgraph 0.4 traversal the crate was written against: pop a node, mark   *)
(* and push each undiscovered successor, return the node.                   *)
(***************************************************************************)
EXTENDS Integers, Sequences, FiniteSets, TLC

\* ---------------------------------------------------------------- bounds
\* The registration calls of one builder mention at most MaxMentions names in
\* total: a call costs one for the system's name plus one per dependency.
MaxMentions == 6

\* System names of the callers, in the order in which new names are taken:
\* the builder only hashes and compares names, so a call sequence is explored
\* with its first new name called "A", its second "B", and so on.
NameOrder == <<"A", "B", "C", "D">>
Names == {NameOrder[i] : i \in 1..Len(NameOrder)}
\* The dependency sequences a call can still pass once m names are mentioned
DepSeqs(m) == UNION {[1..k -> Names] : k \in 0..(MaxMentions - m - 1)}

\* specs::Priority::max_value()
PriorityMax == 2147483647

VARIABLES
    node_table,   \* FnvHashMap<String, NodeIndex>: a function on the known names
    graph,        \* [nodes: sequence of weights, edges: sequence of <<from, to>>]
    pc,           \* "reg": the builder is owned by the caller; "build"; "done"
    stack,        \* Dfs::stack of build
    discovered,   \* Dfs::discovered of build
    priority,     \* the priority counter of build
    delivered,    \* the payload invocations of build, in order
    build_result, \* what build returned
    last,         \* the last registration call and what it returned
    ok_calls,     \* <<name, deps>> of the add_system_with_deps calls that returned Ok
    all_ok,       \* every registration call so far returned Ok
    registered,   \* names passed to add_system / add_system_with_deps
    forward,      \* <<dep, name>>: dep was unknown when name named it as a dependency
    mentions,     \* names mentioned by the calls so far, with repetitions
    mentioned,    \* the names the calls passed, as a system or as a dependency
    reached       \* the names the calls got to before they returned

vars == <<node_table, graph, pc, stack, discovered, priority, delivered,
          build_result, last, ok_calls, all_ok, registered, forward, mentions,
          mentioned, reached>>

\* ---------------------------------------------------------------- graph
\* SystemBuilder::root: the first node added by new()
root == 1

\* Node weights: Option<SystemConstructor>
NoneWeight == [kind |-> "None", name |-> ""]
\* Some(constructor): the constructor the caller registered under `name`
SomeCtor(name) == [kind |-> "Real", name |-> name]
\* Some(box move |_, _| throw!(MissingDependentSystem(dep_name)))
MissingCtor(dep_name) == [kind |-> "Missing", name |-> dep_name]

\* Graph::add_node: the new node's index is the length of the node vector
add_node(g, w) == [g EXCEPT !.nodes = Append(@, w)]
\* Graph::add_edge: parallel edges are allowed
add_edge(g, a, b) == [g EXCEPT !.edges = Append(@, <<a, b>>)]

RECURSIVE NeighborsFrom(_, _, _)
NeighborsFrom(g, n, i) ==
    IF i = 0 THEN <<>>
    ELSE IF g.edges[i][1] = n
         THEN <<g.edges[i][2]>> \o NeighborsFrom(g, n, i - 1)
         ELSE NeighborsFrom(g, n, i - 1)
\* Variant of neighbors that walks the outgoing edges oldest first
neighbors_oldest_first(g, n) ==
    LET out == SelectSeq(g.edges, LAMBDA e : e[1] = n)
    IN [i \in 1..Len(out) |-> out[i][2]]

\* Graph::neighbors(n): targets of n's outgoing edges, newest edge first
neighbors(g, n) == NeighborsFrom(g, n, Len(g.edges))

\* The for loop of Dfs::next: if discovered.visit(succ) { stack.push(succ) }
RECURSIVE PushSuccs(_, _, _, _)
PushSuccs(succs, i, stk, disc) ==
    IF i > Len(succs) THEN [stack |-> stk, discovered |-> disc]
    ELSE IF succs[i] \in disc
         THEN PushSuccs(succs, i + 1, stk, disc)
         ELSE PushSuccs(succs, i + 1, Append(stk, succs[i]), disc \cup {succs[i]})

\* Dfs::next on a non-empty stack: pop, push the undiscovered successors
DfsNext(g, stk, disc) ==
    LET node == stk[Len(stk)]
        r == PushSuccs(neighbors(g, node), 1, SubSeq(stk, 1, Len(stk) - 1), disc)
    IN [node |-> node, stack |-> r.stack, discovered |-> r.discovered]

RECURSIVE HasPathLoop(_, _, _, _)
HasPathLoop(g, stk, disc, to) ==
    IF stk = <<>> THEN FALSE
    ELSE LET r == DfsNext(g, stk, disc)
         IN IF r.node = to THEN TRUE
            ELSE HasPathLoop(g, r.stack, r.discovered, to)
\* Variant of has_path_connecting that asks for a path of at least one edge
\* (the start node itself does not count as reached).
has_path_connecting_proper(g, from, to) ==
    \E s \in {g.edges[i][2] : i \in {j \in 1..Len(g.edges) : g.edges[j][1] = from}} :
        HasPathLoop(g, <<s>>, {s}, to)

\* petgraph::algo::has_path_connecting(g, from, to, space): a Dfs from
\* `from` that answers true as soon as it returns `to` (from itself included)
has_path_connecting(g, from, to) == HasPathLoop(g, <<from>>, {from}, to)

\* ---------------------------------------------------------------- new
\* SystemBuilder::new(): a graph holding the root node alone, an empty table
NoCall == [op |-> "none", name |-> "", deps |-> <<>>, tag |-> "none",
           node |-> 0, known |-> FALSE, trace |-> <<>>]

Init ==
    /\ node_table = <<>>
    /\ graph = [nodes |-> <<NoneWeight>>, edges |-> <<>>]
    /\ pc = "reg"
    /\ stack = <<>>
    /\ discovered = {}
    /\ priority = PriorityMax
    /\ delivered = <<>>
    /\ build_result = [tag |-> "none", name |-> ""]
    /\ last = NoCall
    /\ ok_calls = {}
    /\ all_ok = TRUE
    /\ registered = {}
    /\ forward = {}
    /\ mentions = 0
    /\ mentioned = {}
    /\ reached = {}

\* ---------------------------------------------------------------- registration
\* Variant of add_system_impl whose Occupied arm keeps the payload it finds
add_system_impl_keep(table, g, name) ==
    IF name \in DOMAIN table
    THEN [err |-> "none", node |-> table[name], table |-> table, graph |-> g]
    ELSE LET g1 == add_node(g, SomeCtor(name))
         IN [err |-> "none", node |-> Len(g1.nodes),
             table |-> (name :> Len(g1.nodes)) @@ table, graph |-> g1]

\* Variant of add_system_impl that inserts a new node for a known name too
add_system_impl_fresh(table, g, name) ==
    LET g1 == add_node(g, SomeCtor(name))
        node == Len(g1.nodes)
    IN [err |-> "none", node |-> node,
        table |-> [n \in DOMAIN table \cup {name} |-> IF n = name THEN node ELSE table[n]],
        graph |-> g1]

\* Variant of add_system_impl whose Occupied arm also drops the dependency
\* edges the node had from its earlier registrations
add_system_impl_reset(table, g, name) ==
    IF name \in DOMAIN table
    THEN LET node == table[name]
         IN [err |-> "none", node |-> node, table |-> table,
             graph |-> [nodes |-> [g.nodes EXCEPT ![node] = SomeCtor(name)],
                        edges |-> SelectSeq(g.edges,
                                     LAMBDA e : ~(e[2] = node /\ e[1] # root))]]
    ELSE LET g1 == add_node(g, SomeCtor(name))
         IN [err |-> "none", node |-> Len(g1.nodes),
             table |-> (name :> Len(g1.nodes)) @@ table, graph |-> g1]

\* Variant of add_system_impl whose Vacant arm stores an index one past the
\* node it added
add_system_impl_dangling(table, g, name) ==
    IF name \in DOMAIN table
    THEN LET node == table[name]
         IN IF node \in 1..Len(g.nodes)
            THEN [err |-> "none", node |-> node, table |-> table,
                  graph |-> [g EXCEPT !.nodes[node] = SomeCtor(name)]]
            ELSE [err |-> "DuplicateSystem", node |-> 0, table |-> table, graph |-> g]
    ELSE LET g1 == add_node(g, SomeCtor(name))
             node == Len(g1.nodes)
         IN [err |-> "none", node |-> node, table |-> (name :> node + 1) @@ table,
             graph |-> g1]

\* SystemBuilder::add_system_impl: upsert of the payload of `name`
add_system_impl(table, g, name) ==
    IF name \in DOMAIN table
    THEN LET node == table[name]
         IN IF node \in 1..Len(g.nodes)
            THEN [err |-> "none", node |-> node, table |-> table,
                  graph |-> [g EXCEPT !.nodes[node] = SomeCtor(name)]]
            ELSE [err |-> "DuplicateSystem", node |-> 0, table |-> table, graph |-> g]
    ELSE LET g1 == add_node(g, SomeCtor(name))
             node == Len(g1.nodes)
         IN [err |-> "none", node |-> node, table |-> (name :> node) @@ table,
             graph |-> g1]

\* Claim-side reachability, independent of the Dfs above: the nodes reachable
\* from the set S by a directed path of zero or more edges.
RECURSIVE ReachFrom(_, _)
ReachFrom(g, S) ==
    LET T == S \cup {g.edges[i][2] : i \in {j \in 1..Len(g.edges) : g.edges[j][1] \in S}}
    IN IF T = S THEN S ELSE ReachFrom(g, T)
PathExists(g, a, b) == b \in ReachFrom(g, {a})

\* Variant of vacant_entry that leaves the placeholder without its root edge
vacant_entry_unanchored(table, g, dep) ==
    LET g1 == add_node(g, MissingCtor(dep))
    IN [node |-> Len(g1.nodes), table |-> (dep :> Len(g1.nodes)) @@ table, graph |-> g1]

\* Variant of vacant_entry whose placeholder carries no payload
vacant_entry_none(table, g, dep) ==
    LET g1 == add_node(g, NoneWeight)
        dep_node == Len(g1.nodes)
    IN [node |-> dep_node, table |-> (dep :> dep_node) @@ table,
        graph |-> add_edge(g1, root, dep_node)]

\* The Entry::Vacant arm of add_system_with_deps: a placeholder node for
\* `dep` whose payload throws MissingDependentSystem(dep), anchored at the root
vacant_entry(table, g, dep) ==
    LET g1 == add_node(g, MissingCtor(dep))
        dep_node == Len(g1.nodes)
    IN [node |-> dep_node, table |-> (dep :> dep_node) @@ table,
        graph |-> add_edge(g1, root, dep_node)]

\* Variant of ProcessDeps that adds the edge dep_node -> node before it asks
\* whether the edge closes a cycle
RECURSIVE ProcessDepsEdgeFirst(_, _, _, _, _, _)
ProcessDepsEdgeFirst(table, g, node, deps, i, trace) ==
    IF i > Len(deps)
    THEN [tag |-> "Ok", table |-> table, graph |-> g, trace |-> trace]
    ELSE LET dep == deps[i]
         IN IF dep \notin DOMAIN table
            THEN LET v == vacant_entry(table, g, dep)
                 IN ProcessDepsEdgeFirst(v.table, add_edge(v.graph, v.node, node), node, deps, i + 1,
                                Append(trace, [dep |-> dep, known |-> FALSE,
                                               fwd |-> FALSE, threw |-> FALSE]))
            ELSE LET dep_node == table[dep]
                     fwd == PathExists(g, node, dep_node)
                     g2 == add_edge(g, dep_node, node)
                 IN IF has_path_connecting(g, dep_node, node)
                    THEN [tag |-> "WouldCycle", table |-> table, graph |-> g2,
                          trace |-> Append(trace, [dep |-> dep, known |-> TRUE,
                                                   fwd |-> fwd, threw |-> TRUE])]
                    ELSE ProcessDepsEdgeFirst(table, g2, node, deps, i + 1,
                                     Append(trace, [dep |-> dep, known |-> TRUE,
                                                    fwd |-> fwd, threw |-> FALSE]))

\* The loop over deps of add_system_with_deps, from the i-th dependency on.
\* trace records, for every dependency processed, whether it was known,
\* whether a path dependent -> dependency existed when it was processed
\* (fwd), and whether the call threw WouldCycle there.
RECURSIVE ProcessDeps(_, _, _, _, _, _)
ProcessDeps(table, g, node, deps, i, trace) ==
    IF i > Len(deps)
    THEN [tag |-> "Ok", table |-> table, graph |-> g, trace |-> trace]
    ELSE LET dep == deps[i]
         IN IF dep \notin DOMAIN table
            THEN LET v == vacant_entry(table, g, dep)
                 IN ProcessDeps(v.table, add_edge(v.graph, v.node, node), node, deps, i + 1,
                                Append(trace, [dep |-> dep, known |-> FALSE,
                                               fwd |-> FALSE, threw |-> FALSE]))
            ELSE \* Entry::Occupied
                 LET dep_node == table[dep]
                     fwd == PathExists(g, node, dep_node)
                 IN IF has_path_connecting(g, dep_node, node)
                    THEN [tag |-> "WouldCycle", table |-> table, graph |-> g,
                          trace |-> Append(trace, [dep |-> dep, known |-> TRUE,
                                                   fwd |-> fwd, threw |-> TRUE])]
                    ELSE ProcessDeps(table, add_edge(g, dep_node, node), node, deps, i + 1,
                                     Append(trace, [dep |-> dep, known |-> TRUE,
                                                    fwd |-> fwd, threw |-> FALSE]))

\* The names of `seq` that are new to the table come in the order of NameOrder
RECURSIVE InOrder(_, _, _)
InOrder(seq, i, k) ==
    IF i > Len(seq) THEN TRUE
    ELSE IF \E j \in 1..k : NameOrder[j] = seq[i]
         THEN InOrder(seq, i + 1, k)
         ELSE /\ k < Len(NameOrder)
              /\ seq[i] = NameOrder[k + 1]
              /\ InOrder(seq, i + 1, k + 1)
\* A call the caller makes: within the mention budget, new names in order
CallAllowed(name, deps) ==
    /\ pc = "reg"
    /\ mentions + 1 + Len(deps) <= MaxMentions
    /\ InOrder(<<name>> \o deps, 1, Cardinality(DOMAIN node_table))

RegFrame == UNCHANGED <<pc, stack, discovered, priority, delivered, build_result>>

\* SystemBuilder::add_system
add_system(name) ==
    /\ CallAllowed(name, <<>>)
    /\ mentions' = mentions + 1
    /\ mentioned' = mentioned \cup {name}
    /\ LET r == add_system_impl(node_table, graph, name)
           call == [NoCall EXCEPT !.op = "add_system", !.name = name,
                                  !.known = name \in DOMAIN node_table]
       IN IF r.err # "none"
          THEN /\ last' = [call EXCEPT !.tag = r.err]
               /\ all_ok' = FALSE
               /\ UNCHANGED <<node_table, graph, ok_calls, registered, forward, reached>>
          ELSE /\ node_table' = r.table
               /\ reached' = reached \cup {name}
               /\ graph' = add_edge(r.graph, root, r.node)
               /\ last' = [call EXCEPT !.tag = "Ok", !.node = r.node]
               /\ registered' = registered \cup {name}
               /\ UNCHANGED <<ok_calls, all_ok, forward>>
    /\ RegFrame

\* SystemBuilder::add_system_with_deps
add_system_with_deps(name, deps) ==
    /\ CallAllowed(name, deps)
    /\ mentions' = mentions + 1 + Len(deps)
    /\ mentioned' = mentioned \cup {name} \cup {deps[i] : i \in 1..Len(deps)}
    /\ LET r == add_system_impl(node_table, graph, name)
           call == [NoCall EXCEPT !.op = "add_system_with_deps", !.name = name,
                                  !.deps = deps, !.known = name \in DOMAIN node_table]
       IN IF r.err # "none"
          THEN /\ last' = [call EXCEPT !.tag = r.err]
               /\ all_ok' = FALSE
               /\ UNCHANGED <<node_table, graph, ok_calls, registered, forward, reached>>
          ELSE LET p == ProcessDeps(r.table, r.graph, r.node, deps, 1, <<>>)
               IN /\ node_table' = p.table
                  /\ graph' = p.graph
                  /\ last' = [call EXCEPT !.tag = p.tag, !.node = r.node, !.trace = p.trace]
                  /\ registered' = registered \cup {name}
                  /\ reached' = reached \cup {name} \cup {deps[i] : i \in 1..Len(p.trace)}
                  /\ forward' = forward \cup {<<d, name>> : d \in DOMAIN p.table \ DOMAIN r.table}
                  /\ ok_calls' = IF p.tag = "Ok" THEN ok_calls \cup {<<name, deps>>}
                                 ELSE ok_calls
                  /\ all_ok' = (all_ok /\ p.tag = "Ok")
    /\ RegFrame

\* ---------------------------------------------------------------- build
\* SystemBuilder::build, up to the loop: priority and Dfs::new(&graph, root)
build_start ==
    /\ pc = "reg"
    /\ pc' = "build"
    /\ priority' = PriorityMax
    /\ stack' = <<root>>
    /\ discovered' = {root}
    /\ UNCHANGED <<node_table, graph, delivered, build_result, last, ok_calls,
                   all_ok, registered, forward, mentions, mentioned, reached>>

\* What the payload w can return when build invokes it: the placeholder's
\* closure throws MissingDependentSystem, a caller's constructor returns
\* Ok(()) or an error of its own.
Outcomes(w) ==
    IF w.kind = "Missing" THEN {"MissingDependentSystem"} ELSE {"Ok", "PayloadError"}

\* Variants of build_step: `stop` FALSE goes on after a failing payload;
\* `skip` FALSE decrements the priority for a node without payload too;
\* `mark` FALSE forgets the successors it marked; `pop` FALSE leaves a node
\* without payload on the stack.
BuildStepVariant(stop, skip, mark, pop) ==
    /\ pc = "build"
    /\ IF stack = <<>>
       THEN /\ pc' = "done"
            /\ build_result' = IF build_result.tag = "none"
                                THEN [tag |-> "Ok", name |-> ""] ELSE build_result
            /\ UNCHANGED <<stack, discovered, priority, delivered>>
       ELSE LET r == DfsNext(graph, stack, discovered)
                w == graph.nodes[r.node]
            IN /\ stack' = IF w.kind = "None" /\ ~pop THEN stack ELSE r.stack
               /\ discovered' = IF mark /\ (w.kind # "None" \/ pop)
                                 THEN r.discovered ELSE discovered
               /\ IF w.kind = "None"
                  THEN /\ priority' = IF skip THEN priority ELSE priority - 1
                       /\ UNCHANGED <<pc, delivered, build_result>>
                  ELSE \E res \in Outcomes(w) :
                       /\ delivered' = Append(delivered,
                                          [node |-> r.node, weight |-> w,
                                           priority |-> priority, result |-> res])
                       /\ IF res = "Ok"
                          THEN /\ priority' = priority - 1
                               /\ UNCHANGED <<pc, build_result>>
                          ELSE /\ pc' = IF stop THEN "done" ELSE pc
                               /\ build_result' = [tag |-> res, name |-> w.name]
                               /\ UNCHANGED priority
    /\ UNCHANGED <<node_table, graph, last, ok_calls, all_ok, registered, forward,
                   mentions, mentioned, reached>>
build_step_keep_going == BuildStepVariant(FALSE, TRUE, TRUE, TRUE)
build_step_count_root == BuildStepVariant(TRUE, FALSE, TRUE, TRUE)
build_step_forgetful == BuildStepVariant(TRUE, TRUE, FALSE, TRUE)
build_step_peek == BuildStepVariant(TRUE, TRUE, TRUE, FALSE)

\* One iteration of `while let Some(node) = dfs.next(&self.graph)`, and the
\* Ok(()) after the loop once the stack is empty
build_step ==
    /\ pc = "build"
    /\ IF stack = <<>>
       THEN /\ pc' = "done"
            /\ build_result' = [tag |-> "Ok", name |-> ""]
            /\ UNCHANGED <<stack, discovered, priority, delivered>>
       ELSE LET r == DfsNext(graph, stack, discovered)
                w == graph.nodes[r.node]
            IN /\ stack' = r.stack
               /\ discovered' = r.discovered
               /\ IF w.kind = "None"
                  THEN UNCHANGED <<pc, priority, delivered, build_result>>
                  ELSE \E res \in Outcomes(w) :
                       /\ delivered' = Append(delivered,
                                          [node |-> r.node, weight |-> w,
                                           priority |-> priority, result |-> res])
                       /\ IF res = "Ok"
                          THEN /\ priority' = priority - 1
                               /\ UNCHANGED <<pc, build_result>>
                          ELSE /\ pc' = "done"
                               /\ build_result' = [tag |-> res, name |-> w.name]
                               /\ UNCHANGED priority
    /\ UNCHANGED <<node_table, graph, last, ok_calls, all_ok, registered, forward,
                   mentions, mentioned, reached>>

Next ==
    \/ \E name \in Names : add_system(name)
    \/ \E name \in Names : \E deps \in DepSeqs(mentions) : add_system_with_deps(name, deps)
    \/ build_start
    \/ build_step

Spec == Init /\ [][Next]_vars

\* build is one synchronous call: once it has started, its loop keeps running
FairSpec == Spec /\ WF_vars(build_step)

TypeOK ==
    /\ pc \in {"reg", "build", "done"}
    /\ DOMAIN node_table \subseteq Names
    /\ \A n \in DOMAIN node_table : node_table[n] \in 2..Len(graph.nodes)
    /\ mentions \in 0..MaxMentions

\* ---------------------------------------------------------------- properties
EdgeSet(g) == {g.edges[i] : i \in 1..Len(g.edges)}
\* Some edge a -> b lies on a directed cycle (b reaches a)
HasCycle(g) == \E e \in EdgeSet(g) : PathExists(g, e[2], e[1])
\* The positions of build's invocations for node n
DeliveredAt(n) == {i \in 1..Len(delivered) : delivered[i].node = n}
BuildOk == pc = "done" /\ build_result.tag = "Ok"
LastIsWithDeps == last.op = "add_system_with_deps"
SelfDep == \E i \in 1..Len(last.deps) : last.deps[i] = last.name

\* C1: after any sequence of add_system / add_system_with_deps calls on a
\* fresh builder, whatever each returned, the dependency graph has no
\* directed cycle.
C1_GraphAcyclic == ~HasCycle(graph)

\* C2: when the calls introduced no cyclic reference and build returned Ok,
\* a delivered system has a strictly lower priority than every delivered
\* system it depends on, directly or transitively.
C2_DependentsAfterDependencies ==
    (BuildOk /\ ~HasCycle(graph)) =>
        \A i, j \in 1..Len(delivered) :
            (i # j /\ PathExists(graph, delivered[j].node, delivered[i].node))
                => delivered[i].priority < delivered[j].priority

\* C3: when the calls introduced no cyclic reference and every payload
\* succeeded, build has invoked the payload of every registered system
\* exactly once, a system registered by add_system_with_deps with no
\* dependencies included.
C3_EveryRegisteredInvokedOnce ==
    (BuildOk /\ ~HasCycle(graph)) =>
        \A n \in registered : Cardinality(DeliveredAt(node_table[n])) = 1

\* C4: once add_system_with_deps(X, _, [Y]) has returned Ok, a call
\* add_system_with_deps(Y, _, [X]) returns WouldCycle and leaves no edge
\* X -> Y in the graph.
C4_MutualDependencyRejected ==
    \A X, Y \in Names :
        (LastIsWithDeps /\ last.name = Y /\ last.deps = <<X>> /\ <<X, <<Y>>>> \in ok_calls)
            => /\ last.tag = "WouldCycle"
               /\ <<node_table[X], node_table[Y]>> \notin EdgeSet(graph)

\* C5: add_system_with_deps(X, _, deps) with X among deps returns WouldCycle,
\* for a new X and for a known X, and the graph never holds an edge X -> X.
C5_SelfDependencyRejected ==
    /\ (LastIsWithDeps /\ SelfDep) => last.tag = "WouldCycle"
    /\ \A e \in EdgeSet(graph) : e[1] # e[2]
\* A new name X registered with deps <<d, X>>: d was accepted, X threw
C5_Witness ==
    /\ LastIsWithDeps /\ ~last.known /\ Len(last.deps) = 2
    /\ last.deps[2] = last.name /\ last.deps[1] # last.name
    /\ Len(last.trace) = 2 /\ last.trace[2].threw
    /\ last.tag = "WouldCycle"

\* C6: add_system_with_deps returns WouldCycle exactly when, for some known
\* dependency d, a path from the dependent's node to d's node exists at the
\* moment d is processed; a known dependency with no such path (one that is
\* already a predecessor of the dependent included) is accepted.
C6_WouldCycleIffPathToDependency ==
    LastIsWithDeps =>
        /\ \A i \in 1..Len(last.trace) :
               last.trace[i].known => (last.trace[i].threw <=> last.trace[i].fwd)
        /\ (last.tag = "WouldCycle") <=>
               \E i \in 1..Len(last.trace) : last.trace[i].known /\ last.trace[i].fwd

\* Names that were unknown when first named as a dependency
ForwardNames == {p[1] : p \in forward}
\* Names mentioned as a dependency and never registered
Unresolved == DOMAIN node_table \ registered
NoPayloadError == \A i \in 1..Len(delivered) : delivered[i].result # "PayloadError"
InvokedReal(n) ==
    \E i \in 1..Len(delivered) :
        delivered[i].node = node_table[n] /\ delivered[i].weight = SomeCtor(n)
ForwardKept(n) ==
    /\ graph.nodes[node_table[n]] = SomeCtor(n)
    /\ \A i \in 1..Len(delivered) :
           /\ delivered[i].weight # MissingCtor(n)
           /\ delivered[i].node = node_table[n] => delivered[i].weight = SomeCtor(n)
    /\ \A p \in forward :
           p[1] = n => <<node_table[n], node_table[p[2]]>> \in EdgeSet(graph)

\* C7 as stated: once a name first mentioned as a dependency has been
\* registered, a finished build has invoked its real constructor for its
\* node, never the placeholder's, and its dependents keep their edge.
C7_ForwardReferenceInvoked ==
    \A n \in ForwardNames \cap registered :
        /\ ForwardKept(n)
        /\ pc = "done" => InvokedReal(n)

\* C7 as amended: once a name first mentioned as a dependency has been
\* registered, its node holds the real constructor, build never invokes the
\* placeholder's MissingDependentSystem constructor for it, its dependents
\* keep their edge from its node, and a build that no failing payload stopped
\* has invoked the real constructor.
C7_ForwardReferenceResolved ==
    \A n \in ForwardNames \cap registered :
        /\ ForwardKept(n)
        /\ BuildOk => InvokedReal(n)
\* A build that returned Ok over a graph with a resolved forward reference
C7_Witness ==
    /\ BuildOk
    /\ \E n \in ForwardNames \cap registered : InvokedReal(n)

C9_BuildSucceeds ==
    (pc = "done" /\ all_ok /\ Unresolved = {} /\ NoPayloadError)
        => build_result.tag = "Ok"
\* build returned Ok on a graph that had held a placeholder
C9_Witness ==
    /\ BuildOk /\ all_ok /\ Unresolved = {} /\ ForwardNames # {}
    /\ Len(delivered) >= 2

DepsOf(c) == {c[2][i] : i \in 1..Len(c[2])}
\* Every dependency of every call that returned Ok has its edge d -> X
DeclaredEdgesPresent ==
    \A c \in ok_calls : \A d \in DepsOf(c) :
        <<node_table[d], node_table[c[1]]>> \in EdgeSet(graph)
\* A step keeps every node, every edge and every table entry
GraphOnlyGrows ==
    /\ Len(graph'.nodes) >= Len(graph.nodes)
    /\ Len(graph'.edges) >= Len(graph.edges)
    /\ SubSeq(graph'.edges, 1, Len(graph.edges)) = graph.edges
    /\ \A n \in DOMAIN node_table : n \in DOMAIN node_table' /\ node_table'[n] = node_table[n]

\* C10: re-registration is cumulative: the edge d -> X is in the graph for
\* every dependency d of every add_system_with_deps(X, _, D) that returned
\* Ok, and no operation removes a node or an edge (add_system on a known
\* name included).
C10_EdgesCumulative == []DeclaredEdgesPresent /\ [][GraphOnlyGrows]_vars
\* X registered twice with disjoint non-empty dependency sets, both Ok
C10_Witness ==
    \E c1, c2 \in ok_calls :
        /\ c1[1] = c2[1]
        /\ DepsOf(c1) # {} /\ DepsOf(c2) # {}
        /\ DepsOf(c1) \cap DepsOf(c2) = {}
        /\ DeclaredEdgesPresent

\* A failing invocation is the last one, it ends build, and build returns
\* its error
FailureIsLast ==
    \A i \in 1..Len(delivered) :
        delivered[i].result # "Ok" =>
            /\ i = Len(delivered)
            /\ pc = "done"
            /\ build_result = [tag |-> delivered[i].result, name |-> delivered[i].weight.name]
\* A step keeps the invocations made so far, with their priorities
DeliveredKept ==
    /\ Len(delivered') >= Len(delivered)
    /\ SubSeq(delivered', 1, Len(delivered)) = delivered

\* C11: build stops at the first failing payload: it returns that payload's
\* error, invokes no payload after it, and the payloads invoked before it
\* stay delivered with the priorities they were given.
C11_BuildStopsAtFirstFailure == []FailureIsLast /\ [][DeliveredKept]_vars
\* A caller's payload failed after another had succeeded, nodes still stacked
C11_Witness ==
    /\ pc = "done" /\ build_result.tag = "PayloadError"
    /\ Len(delivered) >= 2 /\ stack # <<>>
    /\ delivered[1].result = "Ok"

\* C12: the k-th payload build invokes receives PriorityMax - (k - 1); the
\* root is visited without an invocation and without consuming a priority,
\* so no two payloads receive the same priority.
C12_PrioritiesConsecutive ==
    /\ \A k \in 1..Len(delivered) :
           /\ delivered[k].priority = PriorityMax - (k - 1)
           /\ delivered[k].node # root
    /\ \A i, j \in 1..Len(delivered) :
           i # j => delivered[i].priority # delivered[j].priority
\* Three payloads invoked by a build that returned Ok
C12_Witness == BuildOk /\ Len(delivered) >= 3

\* The graph left by add_system(A), add_system(B),
\* add_system_with_deps(C, [B]), add_system_with_deps(D, [A])
ScenarioGraph ==
    [nodes |-> <<NoneWeight, SomeCtor("A"), SomeCtor("B"), SomeCtor("C"), SomeCtor("D")>>,
     edges |-> <<<<root, 2>>, <<root, 3>>, <<3, 4>>, <<2, 5>>>>]
InScenario ==
    /\ graph = ScenarioGraph
    /\ ok_calls = {<<"C", <<"B">>>>, <<"D", <<"A">>>>}
    /\ all_ok
\* The priority build gave to the system n (0 when it was not invoked)
PriorityOf(n) ==
    IF n \in DOMAIN node_table /\ DeliveredAt(node_table[n]) # {}
    THEN delivered[CHOOSE i \in DeliveredAt(node_table[n]) : TRUE].priority
    ELSE 0

\* C13: after add_system(A), add_system(B), add_system_with_deps(C, [B]),
\* add_system_with_deps(D, [A]) with succeeding payloads, build returns Ok,
\* invokes exactly 4 payloads, B has a higher priority than C, A than D, and
\* A than B.
C13_Scenario ==
    (InScenario /\ pc = "done" /\ NoPayloadError) =>
        /\ build_result.tag = "Ok"
        /\ Len(delivered) = Cardinality(Names)
        /\ \A n \in Names : Cardinality(DeliveredAt(node_table[n])) = 1
        /\ PriorityOf("B") > PriorityOf("C")
        /\ PriorityOf("A") > PriorityOf("D")
        /\ PriorityOf("A") > PriorityOf("B")
\* build has returned Ok on the scenario's graph
C13_Witness == InScenario /\ BuildOk

\* The table maps every name of S to a node of its own, never the root,
\* and the graph holds the root and one node per name of S
TableCovers(S) ==
    /\ S \subseteq DOMAIN node_table
    /\ \A n \in DOMAIN node_table : node_table[n] \in 2..Len(graph.nodes)
    /\ \A n, m \in DOMAIN node_table : n # m => node_table[n] # node_table[m]
    /\ Len(graph.nodes) = 1 + Cardinality(S)
\* A step keeps the identifier of every known name
IdsStable ==
    \A n \in DOMAIN node_table : n \in DOMAIN node_table' /\ node_table'[n] = node_table[n]

\* C14 as stated: every name a call has mentioned, as a system or as a
\* dependency, maps to one node of its own, never the root, and the graph
\* holds 1 + the number of distinct names mentioned nodes.
C14_NodeTableOfMentioned == TableCovers(mentioned)

\* C14 as amended: every name a call has reached (the system's name, and
\* each dependency up to and including the one at which the call returned
\* WouldCycle) maps to one node of its own, never the root; the identifier
\* of a name never changes, registering a known name creates no node, and
\* the graph holds 1 + the number of distinct names reached nodes.
ReachedCovered == TableCovers(reached)
C14_NodeTableOfReached == []ReachedCovered /\ [][IdsStable]_vars
\* A known name registered again while a placeholder and a third name exist
C14_Witness ==
    /\ last.known /\ last.tag = "Ok" /\ last.node = node_table[last.name]
    /\ Cardinality(reached) >= 3 /\ Unresolved # {}
    /\ TableCovers(reached)

\* C15: after any sequence of registration calls every node other than the
\* root is reachable from the root by a directed path.
C15_AllReachableFromRoot ==
    \A n \in 2..Len(graph.nodes) : PathExists(graph, root, n)

\* The edges a call adds for the dependencies j..i-1 of deps: the root edge
\* of each placeholder it creates, then the edge dependency -> dependent.
\* `known` holds the names known when dependency j is processed.
RECURSIVE ExpectedEdges(_, _, _, _, _, _)
ExpectedEdges(deps, j, i, known, table, node) ==
    IF j >= i THEN <<>>
    ELSE (IF deps[j] \in known THEN <<>> ELSE <<<<root, table[deps[j]]>>>>)
         \o <<<<table[deps[j]], node>>>>
         \o ExpectedEdges(deps, j + 1, i, known \cup {deps[j]}, table, node)

\* A step that is an add_system_with_deps call returning WouldCycle at the
\* i-th dependency leaves the payload registered, the placeholders and the
\* edges of the dependencies before i, and nothing else.
PartialCommit ==
    (pc' = "reg" /\ last'.op = "add_system_with_deps" /\ last'.tag = "WouldCycle") =>
        LET name == last'.name
            deps == last'.deps
            i == CHOOSE k \in 1..Len(last'.trace) : last'.trace[k].threw
            node == node_table'[name]
            before == DOMAIN node_table \cup {name}
            earlier == {deps[j] : j \in 1..(i - 1)}
            fresh == earlier \ before
        IN /\ graph'.nodes[node] = SomeCtor(name)
           /\ name \notin DOMAIN node_table => node = Len(graph.nodes) + 1
           /\ DOMAIN node_table' = before \cup earlier
           /\ deps[i] \in before \cup earlier
           /\ Len(graph'.nodes) = Len(graph.nodes) + Cardinality(fresh)
                                  + (IF name \in DOMAIN node_table THEN 0 ELSE 1)
           /\ \A d \in fresh : graph'.nodes[node_table'[d]] = MissingCtor(d)
           /\ Len(graph'.edges) >= Len(graph.edges)
           /\ SubSeq(graph'.edges, 1, Len(graph.edges)) = graph.edges
           /\ SubSeq(graph'.edges, Len(graph.edges) + 1, Len(graph'.edges))
                  = ExpectedEdges(deps, 1, i, before, node_table', node)

\* C16: when add_system_with_deps(name, c, [d1..dn]) returns WouldCycle at
\* di, name's payload is c (its node created if it was new), the placeholders
\* and the edges dj -> name for j < i stay in the graph, no edge di -> name
\* is added, and the dependencies after di get no placeholder and no edge.
C16_PartialCommit == [][PartialCommit]_vars
\* A call that created a placeholder for its first dependency, returned
\* WouldCycle at a later one and left a last, unknown dependency untouched
C16_Witness ==
    /\ LastIsWithDeps /\ last.tag = "WouldCycle"
    /\ Len(last.trace) >= 2 /\ ~last.trace[1].known
    /\ Len(last.deps) > Len(last.trace)
    /\ last.deps[Len(last.deps)] \notin DOMAIN node_table

\* The positions of the edges that enter node n
InEdges(n) == {i \in 1..Len(graph.edges) : graph.edges[i][2] = n}
\* The positions of the edges root -> n
RootEdges(n) == {i \in InEdges(n) : graph.edges[i][1] = root}

\* C17: build invokes the payload of each node at most once, whatever the
\* node's in-degree: several dependency edges, parallel duplicate edges, or
\* a root edge next to dependency edges.
C17_InvokedAtMostOnce ==
    \A n \in 1..Len(graph.nodes) : Cardinality(DeliveredAt(n)) <= 1
\* A finished build that invoked a node with parallel root edges and a node
\* with in-edges from two different nodes
C17_Witness ==
    /\ BuildOk
    /\ \E n \in 2..Len(graph.nodes) :
           DeliveredAt(n) # {} /\ Cardinality(RootEdges(n)) >= 2
    /\ \E n \in 2..Len(graph.nodes) :
           /\ DeliveredAt(n) # {}
           /\ Cardinality({graph.edges[i][1] : i \in InEdges(n)}) >= 2

\* C18: in every reachable state each non-root node has exactly one edge
\* root -> node: add_system on a known name adds none, and a node first
\* created by add_system_with_deps has its root edge too.
C18_OneRootEdgePerNode ==
    \A n \in 2..Len(graph.nodes) : Cardinality(RootEdges(n)) = 1

\* The nodes Dfs::next returns until the stack is empty, in order
RECURSIVE DfsOrder(_, _, _)
DfsOrder(g, stk, disc) ==
    IF stk = <<>> THEN <<>>
    ELSE LET r == DfsNext(g, stk, disc)
         IN <<r.node>> \o DfsOrder(g, r.stack, r.discovered)
\* The nodes with a payload in the order a build of g reaches them
Linearization(g) ==
    SelectSeq(DfsOrder(g, <<root>>, {root}), LAMBDA n : g.nodes[n].kind # "None")
\* What a second builder holding (table, g) has after the same call
Applied(op, name, deps, table, g) ==
    LET r == add_system_impl(table, g, name)
    IN IF r.err # "none" THEN [table |-> table, graph |-> g]
       ELSE IF op = "add_system"
            THEN [table |-> r.table, graph |-> add_edge(r.graph, root, r.node)]
            ELSE LET p == ProcessDeps(r.table, r.graph, r.node, deps, 1, <<>>)
                 IN [table |-> p.table, graph |-> p.graph]
\* A registration call takes two builders with the same table and graph to
\* the same table and graph
SameCallSameEffect ==
    mentions' # mentions =>
        [table |-> node_table', graph |-> graph']
            = Applied(last'.op, last'.name, last'.deps, node_table, graph)
\* The graph is what add_system calls under distinct names alone leave
OnlyDistinctAddSystem ==
    /\ graph.edges = [k \in 1..(Len(graph.nodes) - 1) |-> <<root, k + 1>>]
    /\ \A n \in DOMAIN node_table : graph.nodes[node_table[n]] = SomeCtor(n)
    /\ ok_calls = {} /\ all_ok
\* Node n has no dependency: its only incoming edge is one root edge
DependencyFree(n) == Cardinality(InEdges(n)) = 1 /\ RootEdges(n) # {}
\* build delivers the k-th payload of the graph's linearization with
\* priority PriorityMax - (k - 1); dependency-free systems are delivered in
\* the order of their root edges, the earliest with the highest priority
LinearizationOfGraph ==
    /\ LET lin == Linearization(graph)
       IN /\ Len(delivered) <= Len(lin)
          /\ \A k \in 1..Len(delivered) :
                 /\ delivered[k].node = lin[k]
                 /\ delivered[k].priority = PriorityMax - (k - 1)
    /\ \A a, b \in 2..Len(graph.nodes) :
           (/\ DependencyFree(a) /\ DependencyFree(b)
            /\ \E i \in RootEdges(a) : \E j \in RootEdges(b) : i < j
            /\ DeliveredAt(b) # {})
           => \E i \in DeliveredAt(a) : \E j \in DeliveredAt(b) :
                  i < j /\ delivered[i].priority > delivered[j].priority
    /\ OnlyDistinctAddSystem =>
           \A k \in 1..Len(delivered) :
               /\ delivered[k].node = k + 1
               /\ delivered[k].weight = SomeCtor(NameOrder[k])

RootReachable == {n \in ReachFrom(graph, {root}) : graph.nodes[n].kind # "None"}
\* What a finished build returned: Ok after one invocation of each
\* root-reachable node, or the error of the first payload that failed
BuildOutcome ==
    pc = "done" =>
        \/ /\ build_result.tag = "Ok"
           /\ \A n \in RootReachable : Cardinality(DeliveredAt(n)) = 1
           /\ \A k \in 1..Len(delivered) :
                  delivered[k].node \in RootReachable /\ delivered[k].result = "Ok"
        \/ /\ build_result.tag # "Ok"
           /\ delivered # <<>>
           /\ delivered[Len(delivered)].result = build_result.tag
           /\ \A k \in 1..(Len(delivered) - 1) : delivered[k].result = "Ok"
BuildTerminates == (pc = "build") ~> (pc = "done")

\* C20: build terminates on every graph the registration operations reach,
\* parallel edges and cycles included: a build that has started returns, and
\* it returns Ok after visiting each root-reachable node once or the error
\* of the first payload that failed.
C20_BuildTerminates == BuildTerminates /\ []BuildOutcome
\* A build that returned Ok on a graph with a cycle under the root and a
\* pair of parallel edges
C20_Witness ==
    /\ BuildOk
    /\ \E e \in EdgeSet(graph) :
           PathExists(graph, e[2], e[1]) /\ PathExists(graph, root, e[1])
    /\ \E i, j \in 1..Len(graph.edges) : i # j /\ graph.edges[i] = graph.edges[j]

\* C21: no sequence of add_system / add_system_with_deps calls on a builder
\* created with new() returns DuplicateSystem, because every index stored
\* in the node table denotes a node of the graph.
C21_DuplicateSystemUnreachable ==
    /\ last.tag # "DuplicateSystem"
    /\ \A n \in DOMAIN node_table : node_table[n] \in 1..Len(graph.nodes)
\* A call went through the Occupied arm: it registered a name the table
\* already held for a placeholder, got the placeholder's node back and
\* left the new payload there
C21_Witness ==
    /\ last.known /\ last.tag = "Ok"
    /\ last.name \in ForwardNames
    /\ last.node = node_table[last.name]
    /\ graph.nodes[last.node] = SomeCtor(last.name)

\* Node n carries no payload (None)
PayloadAbsent(n) == graph.nodes[n].kind = "None"
\* Node n is the placeholder of a dependency name never registered
IsPlaceholder(n) == \E d \in Unresolved : node_table[d] = n

\* C22: in every reachable state a node's payload is None if and only if
\* the node is the root or a placeholder of a dependency name whose system
\* has not been registered; every registered system's node has a payload.
C22_PayloadNoneIffRootOrPlaceholder ==
    /\ \A n \in 1..Len(graph.nodes) :
           PayloadAbsent(n) <=> (n = root \/ IsPlaceholder(n))
    /\ \A s \in registered : ~PayloadAbsent(node_table[s])
\* C22 as amended: a node's payload is None if and only if the node is the
\* root; the placeholder of a dependency name never registered carries the
\* payload that throws MissingDependentSystem(name); every registered
\* system's node carries a constructor registered under its name.
C22_PayloadNoneIffRoot ==
    /\ \A n \in 1..Len(graph.nodes) : PayloadAbsent(n) <=> n = root
    /\ \A d \in Unresolved : graph.nodes[node_table[d]] = MissingCtor(d)
    /\ \A s \in registered : graph.nodes[node_table[s]] = SomeCtor(s)
\* A placeholder still unresolved next to a placeholder that a later
\* registration resolved
C22_Witness ==
    /\ Unresolved # {}
    /\ ForwardNames \cap registered # {}
    /\ \E n \in 2..Len(graph.nodes) : IsPlaceholder(n) /\ ~PayloadAbsent(n)

====
